---- MODULE Spec2Model ----
(***************************************************************************)
(* Model of nuitka/nodes/BuiltinRefNodes.py: the four built-in reference   *)
(* node classes, their computeExpressionRaw / computeExpressionCall        *)
(* methods, and an optimization driver that constructs a node, optimizes   *)
(* it in place and optimizes calls through it, against a recording trace   *)
(* collection.                                                             *)
(***************************************************************************)
EXTENDS Integers, Sequences, FiniteSets, TLC

VARIABLES
    python_version,   \* nuitka.PythonVersions.python_version of the process
    node,             \* the reference node the driver currently holds
    origin,           \* the node as it was constructed
    result,           \* the triple returned by the last compute* call
    trace_collection, \* invocations recorded by the trace collection so far
    log,              \* side effects of the last operation, in program order
    op,               \* the last operation and its inputs
    passes,           \* computeExpressionRaw applications since construction
    rewrites,         \* replacements installed since construction
    ops               \* operations run so far

vars == <<python_version, node, origin, result, trace_collection, log, op,
          passes, rewrites, ops>>

(* ------------------------------ bounds --------------------------------- *)

MaxOps == 4
MaxArgs == 1
MaxSourceRef == 1

SourceRefs == 1..MaxSourceRef

(* ------------------------- Python-level values ------------------------- *)

\* Python's None where it is used as a tag, a message or "no result".
PyNone == "<None>"

\* "new_node is None" of an expression slot.
NoneNode == [kind |-> "<None>"]

\* No node was produced (construction raised AssertionError).
NoNode == [kind |-> "<no node>"]

NoResult == [node |-> NoNode, tags |-> PyNone, message |-> PyNone]

PythonVersions == {270, 320, 330, 360}

(* ------------------------- nuitka.Builtins ----------------------------- *)

builtin_names ==
    {"None", "True", "False", "__debug__", "Ellipsis",
     "len", "dir", "eval", "locals", "vars"}
    \cup (IF python_version < 300 THEN {"execfile"} ELSE {"exec"})

builtin_anon_names == {"NoneType", "ellipsis"}

builtin_exception_names == {"ImportError", "ValueError"}

\* Names a caller may try to construct a node with.
Names ==
    {"None", "True", "False", "__debug__", "Ellipsis",
     "len", "dir", "eval", "locals", "vars", "exec", "execfile",
     "NoneType", "ellipsis", "ImportError", "ValueError", "no_such_builtin"}

(* --------------------------- node factories ---------------------------- *)

makeConstantRefNode(constant, source_ref) ==
    [kind |-> "EXPRESSION_CONSTANT_REF", constant |-> constant,
     source_ref |-> source_ref]

ExpressionBuiltinMakeException(exception_name, args, source_ref) ==
    [kind |-> "EXPRESSION_BUILTIN_MAKE_EXCEPTION",
     exception_name |-> exception_name, args |-> args,
     source_ref |-> source_ref]

ExpressionBuiltinRefBase_init(kind, builtin_name, source_ref) ==
    [kind |-> kind, builtin_name |-> builtin_name, source_ref |-> source_ref]

\* assert builtin_name in builtin_names, then the base constructor.
ExpressionBuiltinRef_init(kind, builtin_name, source_ref) ==
    IF builtin_name \in builtin_names
    THEN ExpressionBuiltinRefBase_init(kind, builtin_name, source_ref)
    ELSE NoNode

\* Variant: the name is checked against the value built-ins.
ExpressionBuiltinAnonymousRef_init_wrong_set(kind, builtin_name, source_ref) ==
    IF builtin_name \in builtin_names
    THEN ExpressionBuiltinRefBase_init(kind, builtin_name, source_ref)
    ELSE NoNode

ExpressionBuiltinAnonymousRef_init(kind, builtin_name, source_ref) ==
    IF builtin_name \in builtin_anon_names
    THEN ExpressionBuiltinRefBase_init(kind, builtin_name, source_ref)
    ELSE NoNode

ExpressionBuiltinExceptionRef_init(kind, exception_name, source_ref) ==
    IF exception_name \in builtin_exception_names
    THEN ExpressionBuiltinRefBase_init(kind, exception_name, source_ref)
    ELSE NoNode

RefKinds ==
    {"EXPRESSION_BUILTIN_REF", "EXPRESSION_BUILTIN_ORIGINAL_REF",
     "EXPRESSION_BUILTIN_ANONYMOUS_REF", "EXPRESSION_BUILTIN_EXCEPTION_REF"}

\* Class selected by kind; ExpressionBuiltinOriginalRef inherits __init__.
construct(kind, builtin_name, source_ref) ==
    CASE kind \in {"EXPRESSION_BUILTIN_REF", "EXPRESSION_BUILTIN_ORIGINAL_REF"}
           -> ExpressionBuiltinRef_init(kind, builtin_name, source_ref)
      [] kind = "EXPRESSION_BUILTIN_ANONYMOUS_REF"
           -> ExpressionBuiltinAnonymousRef_init(kind, builtin_name, source_ref)
      [] kind = "EXPRESSION_BUILTIN_EXCEPTION_REF"
           -> ExpressionBuiltinExceptionRef_init(kind, builtin_name, source_ref)

(* ------------------------ computeExpressionRaw ------------------------- *)

\* Variant: the table lacks its last entry.
quick_names_keys_short == {"None", "True", "False", "__debug__"}

\* Keys of the quick_names table.
quick_names_keys == {"None", "True", "False", "__debug__", "Ellipsis"}

\* The quick_names table: name -> literal value.
quick_names(name) ==
    CASE name = "None"      -> [type |-> "NoneType", value |-> "None"]
      [] name = "True"      -> [type |-> "bool", value |-> "True"]
      [] name = "False"     -> [type |-> "bool", value |-> "False"]
      [] name = "__debug__" -> [type |-> "bool", value |-> "True"]
      [] name = "Ellipsis"  -> [type |-> "ellipsis", value |-> "Ellipsis"]

Triple(n, tags, message) == [node |-> n, tags |-> tags, message |-> message]

\* Variant: the method reports the fold but answers the node itself.
ExpressionBuiltinRef_computeExpressionRaw_self(self) ==
    IF self.builtin_name \in quick_names_keys
    THEN Triple(self, "new_constant",
                "Built-in constant '" \o self.builtin_name \o "' resolved.")
    ELSE Triple(self, PyNone, PyNone)

ExpressionBuiltinRef_computeExpressionRaw(self) ==
    IF self.builtin_name \in quick_names_keys
    THEN Triple(makeConstantRefNode(quick_names(self.builtin_name),
                                    self.source_ref),
                "new_constant",
                "Built-in constant '" \o self.builtin_name \o "' resolved.")
    ELSE Triple(self, PyNone, PyNone)

\* Variant: the override is missing and the base class method runs.
ExpressionBuiltinOriginalRef_computeExpressionRaw_inherited(self) ==
    ExpressionBuiltinRef_computeExpressionRaw(self)

ExpressionBuiltinOriginalRef_computeExpressionRaw(self) ==
    Triple(self, PyNone, PyNone)

ExpressionBuiltinAnonymousRef_computeExpressionRaw(self) ==
    Triple(self, PyNone, PyNone)

ExpressionBuiltinExceptionRef_computeExpressionRaw(self) ==
    Triple(self, PyNone, PyNone)

\* A constant reference is fully resolved.
ExpressionConstantRef_computeExpressionRaw(self) ==
    Triple(self, PyNone, PyNone)

\* Method dispatch on the node's class.
computeExpressionRaw(self) ==
    CASE self.kind = "EXPRESSION_BUILTIN_REF"
           -> ExpressionBuiltinRef_computeExpressionRaw(self)
      [] self.kind = "EXPRESSION_BUILTIN_ORIGINAL_REF"
           -> ExpressionBuiltinOriginalRef_computeExpressionRaw(self)
      [] self.kind = "EXPRESSION_BUILTIN_ANONYMOUS_REF"
           -> ExpressionBuiltinAnonymousRef_computeExpressionRaw(self)
      [] self.kind = "EXPRESSION_BUILTIN_EXCEPTION_REF"
           -> ExpressionBuiltinExceptionRef_computeExpressionRaw(self)
      [] self.kind = "EXPRESSION_CONSTANT_REF"
           -> ExpressionConstantRef_computeExpressionRaw(self)

(* ------------------------ call-site collaborators ---------------------- *)

\* Argument and keyword-argument expressions a call site may carry.
ArgNode == [kind |-> "EXPRESSION_VARIABLE_REF", variable_name |-> "a"]

CallArgs == UNION {[1..n -> {ArgNode}] : n \in 0..MaxArgs}

\* A dict constant is modelled by its set of keys.
EmptyDict == {}

CallKws ==
    {NoneNode,
     [kind |-> "EXPRESSION_CONSTANT_REF", constant |-> EmptyDict],
     [kind |-> "EXPRESSION_CONSTANT_REF", constant |-> {"name"}],
     [kind |-> "EXPRESSION_MAKE_DICT"]}

isExpressionConstantRef(n) == n.kind = "EXPRESSION_CONSTANT_REF"

getConstant(n) == n.constant

makeCallNode(called, call_args, call_kw) ==
    [kind |-> "EXPRESSION_CALL", called |-> called, call_args |-> call_args,
     call_kw |-> call_kw, source_ref |-> called.source_ref]

\* Side effects, as seen by the collaborators the methods call into.
onExceptionRaiseExit(exception_type) ==
    [target |-> "trace_collection", call |-> "onExceptionRaiseExit",
     arg |-> exception_type]

onLocalsUsage ==
    [target |-> "trace_collection", call |-> "onLocalsUsage", arg |-> ""]

calledComputeBuiltinCall ==
    [target |-> "OptimizeBuiltinCalls", call |-> "computeBuiltinCall",
     arg |-> ""]

calledExtractBuiltinArgs ==
    [target |-> "BuiltinOptimization", call |-> "extractBuiltinArgs",
     arg |-> ""]

isTraceEffect(e) == e.target = "trace_collection"

\* What the built-in call optimization may answer for a call.
BuiltinCallOutcomes == {"none", "new_constant", "new_expression"}

\* OptimizeBuiltinCalls.computeBuiltinCall: either leaves the call alone or
\* answers with a replacement, its tag and a message.
computeBuiltinCall(call_node, called, outcome) ==
    IF outcome = "none"
    THEN Triple(call_node, PyNone, PyNone)
    ELSE Triple([kind |-> "EXPRESSION_BUILTIN_CALL_REPLACEMENT",
                 builtin_name |-> called.builtin_name,
                 source_ref |-> call_node.source_ref],
                outcome,
                "Replaced call to built-in '" \o called.builtin_name \o "'.")

\* The closure createBuiltinMakeException, which captures exception_name.
createBuiltinMakeException(exception_name) ==
    [closure |-> "createBuiltinMakeException",
     exception_name |-> exception_name]

\* Calling that closure with (args, source_ref).
callBuiltinClass(builtin_class, args, source_ref) ==
    ExpressionBuiltinMakeException(builtin_class.exception_name, args,
                                   source_ref)

\* What argument binding may answer for a call.
ExtractOutcomes == {"fail", "bound"}

\* BuiltinOptimization.extractBuiltinArgs: None when the arguments cannot be
\* bound, else builtin_class applied to the bound arguments.
extractBuiltinArgs(call_node, builtin_class, outcome) ==
    IF outcome = "fail"
    THEN NoneNode
    ELSE callBuiltinClass(builtin_class, call_node.call_args,
                          call_node.source_ref)

(* ------------------------ computeExpressionCall ------------------------ *)

\* The names whose call makes the locals escape.
locals_usage_names == {"dir", "eval", "exec", "execfile", "locals", "vars"}

\* Variant: the exception exit is recorded after the call optimization.
ExpressionBuiltinRef_computeExpressionCall_late_exit(self, call_node, call_args, call_kw, outcome) ==
    LET r == computeBuiltinCall(call_node, self, outcome) IN
    [result  |-> r,
     effects |-> <<calledComputeBuiltinCall,
                   onExceptionRaiseExit("BaseException")>>
                 \o (IF self.builtin_name \in locals_usage_names
                     THEN <<onLocalsUsage>> ELSE <<>>)]

\* Variant: the locals usage is recorded only when the call was left alone.
ExpressionBuiltinRef_computeExpressionCall_early_return(self, call_node, call_args, call_kw, outcome) ==
    LET r == computeBuiltinCall(call_node, self, outcome) IN
    [result  |-> r,
     effects |-> <<onExceptionRaiseExit("BaseException"),
                   calledComputeBuiltinCall>>
                 \o (IF self.builtin_name \in locals_usage_names
                        /\ r.tags = PyNone
                     THEN <<onLocalsUsage>> ELSE <<>>)]

\* Answers the returned triple and the side effects in program order.
ExpressionBuiltinRef_computeExpressionCall(self, call_node, call_args, call_kw, outcome) ==
    LET r == computeBuiltinCall(call_node, self, outcome) IN
    [result  |-> r,
     effects |-> <<onExceptionRaiseExit("BaseException"),
                   calledComputeBuiltinCall>>
                 \o (IF self.builtin_name \in locals_usage_names
                     THEN <<onLocalsUsage>> ELSE <<>>)]

\* Variant: the version test excludes 3.3 itself.
importErrorKwGuard_after330(exception_name, call_kw) ==
    /\ exception_name = "ImportError" /\ python_version > 330
    /\ call_kw # NoneNode
    /\ (~isExpressionConstantRef(call_kw) \/ getConstant(call_kw) # EmptyDict)

\* The guard of lines 230-233: keyword arguments to ImportError on 3.3+.
importErrorKwGuard(exception_name, call_kw) ==
    /\ exception_name = "ImportError" /\ python_version >= 330
    /\ call_kw # NoneNode
    /\ (~isExpressionConstantRef(call_kw) \/ getConstant(call_kw) # EmptyDict)

\* Variant: the "new_node is None" test is missing.
ExpressionBuiltinExceptionRef_computeExpressionCall_no_none_test(self, call_node, call_args, call_kw, outcome) ==
    LET exception_name == self.builtin_name
        new_node == extractBuiltinArgs(
                        call_node, createBuiltinMakeException(exception_name),
                        outcome)
    IN  IF importErrorKwGuard(exception_name, call_kw)
        THEN [result  |-> Triple(call_node, PyNone, PyNone),
              effects |-> <<>>]
        ELSE [result  |-> Triple(new_node, "new_expression",
                                 "Detected built-in exception making."),
              effects |-> <<calledExtractBuiltinArgs>>]

\* Variant: the tag of a successful specialization is "new_builtin".
ExpressionBuiltinExceptionRef_computeExpressionCall_other_tag(self, call_node, call_args, call_kw, outcome) ==
    LET exception_name == self.builtin_name
        new_node == extractBuiltinArgs(
                        call_node, createBuiltinMakeException(exception_name),
                        outcome)
    IN  IF importErrorKwGuard(exception_name, call_kw)
        THEN [result  |-> Triple(call_node, PyNone, PyNone),
              effects |-> <<>>]
        ELSE [result  |-> IF new_node = NoneNode
                          THEN Triple(call_node, PyNone, PyNone)
                          ELSE Triple(new_node, "new_builtin",
                                      "Detected built-in exception making."),
              effects |-> <<calledExtractBuiltinArgs>>]

\* Variant: the exception exit is recorded as for a value built-in.
ExpressionBuiltinExceptionRef_computeExpressionCall_records_exit(self, call_node, call_args, call_kw, outcome) ==
    LET exception_name == self.builtin_name
        new_node == extractBuiltinArgs(
                        call_node, createBuiltinMakeException(exception_name),
                        outcome)
    IN  IF importErrorKwGuard(exception_name, call_kw)
        THEN [result  |-> Triple(call_node, PyNone, PyNone),
              effects |-> <<>>]
        ELSE [result  |-> IF new_node = NoneNode
                          THEN Triple(call_node, PyNone, PyNone)
                          ELSE Triple(new_node, "new_expression",
                                      "Detected built-in exception making."),
              effects |-> <<onExceptionRaiseExit("BaseException"),
                            calledExtractBuiltinArgs>>]

ExpressionBuiltinExceptionRef_computeExpressionCall(self, call_node, call_args, call_kw, outcome) ==
    LET exception_name == self.builtin_name
        new_node == extractBuiltinArgs(
                        call_node, createBuiltinMakeException(exception_name),
                        outcome)
    IN  IF importErrorKwGuard(exception_name, call_kw)
        THEN [result  |-> Triple(call_node, PyNone, PyNone),
              effects |-> <<>>]
        ELSE [result  |-> IF new_node = NoneNode
                          THEN Triple(call_node, PyNone, PyNone)
                          ELSE Triple(new_node, "new_expression",
                                      "Detected built-in exception making."),
              effects |-> <<calledExtractBuiltinArgs>>]

ValueRefKinds == {"EXPRESSION_BUILTIN_REF", "EXPRESSION_BUILTIN_ORIGINAL_REF"}

\* Method dispatch on the callee's class; ExpressionBuiltinOriginalRef
\* inherits the method of ExpressionBuiltinRef.
computeExpressionCall(self, call_node, call_args, call_kw, outcome) ==
    IF self.kind \in ValueRefKinds
    THEN ExpressionBuiltinRef_computeExpressionCall(
             self, call_node, call_args, call_kw, outcome)
    ELSE ExpressionBuiltinExceptionRef_computeExpressionCall(
             self, call_node, call_args, call_kw, outcome)

(* --------------------------- the driver -------------------------------- *)

NoOp ==
    [name |-> "none", kind |-> "none", builtin_name |-> "none",
     call_node |-> NoneNode, outcome |-> "none"]

Init ==
    /\ python_version \in PythonVersions
    /\ node = NoNode
    /\ origin = NoNode
    /\ result = NoResult
    /\ trace_collection = <<>>
    /\ log = <<>>
    /\ op = NoOp
    /\ passes = 0
    /\ rewrites = 0
    /\ ops = 0

\* Tree building creates a reference node of some class for some name.
Construct ==
    /\ ops < MaxOps
    /\ \E kind \in RefKinds, name \in Names, source_ref \in SourceRefs :
         /\ node' = construct(kind, name, source_ref)
         /\ op' = [name |-> "__init__", kind |-> kind, builtin_name |-> name,
                   call_node |-> NoneNode, outcome |-> "none"]
    /\ origin' = node'
    /\ result' = NoResult
    /\ log' = <<>>
    /\ passes' = 0
    /\ rewrites' = 0
    /\ ops' = ops + 1
    /\ UNCHANGED <<python_version, trace_collection>>

\* The driver optimizes the node it holds and installs the returned node.
ComputeExpressionRaw ==
    /\ ops < MaxOps
    /\ node # NoNode
    /\ LET r == computeExpressionRaw(node) IN
         /\ result' = r
         /\ node' = r.node
         /\ rewrites' = IF r.tags # PyNone THEN rewrites + 1 ELSE rewrites
    /\ op' = [name |-> "computeExpressionRaw", kind |-> node.kind,
              builtin_name |-> IF node.kind \in RefKinds
                               THEN node.builtin_name ELSE "none",
              call_node |-> NoneNode, outcome |-> "none"]
    /\ log' = <<>>
    /\ passes' = passes + 1
    /\ ops' = ops + 1
    /\ UNCHANGED <<python_version, origin, trace_collection>>

\* The driver optimizes a call expression whose callee is the node it holds.
ComputeExpressionCall ==
    /\ ops < MaxOps
    /\ node.kind \in ValueRefKinds \cup {"EXPRESSION_BUILTIN_EXCEPTION_REF"}
    /\ \E call_args \in CallArgs, call_kw \in CallKws,
          outcome \in IF node.kind \in ValueRefKinds
                      THEN BuiltinCallOutcomes ELSE ExtractOutcomes :
         LET call_node == makeCallNode(node, call_args, call_kw)
             c == computeExpressionCall(node, call_node, call_args, call_kw,
                                        outcome)
         IN  /\ result' = c.result
             /\ log' = c.effects
             /\ trace_collection' =
                    trace_collection \o SelectSeq(c.effects, isTraceEffect)
             /\ op' = [name |-> "computeExpressionCall", kind |-> node.kind,
                       builtin_name |-> node.builtin_name,
                       call_node |-> call_node, outcome |-> outcome]
    /\ ops' = ops + 1
    /\ UNCHANGED <<python_version, node, origin, passes, rewrites>>

Next ==
    \/ Construct
    \/ ComputeExpressionRaw
    \/ ComputeExpressionCall

Spec == Init /\ [][Next]_vars

(* ------------------------------ properties ----------------------------- *)

\* How often the last operation invoked the collaborator method `name`.
Count(name) == Cardinality({i \in 1..Len(log) : log[i].call = name})

\* The last step was the operation `name` on a node of one of `kinds`.
LastOp(name, kinds) == op.name = name /\ op.kind \in kinds

\* The step taken is the operation `name` on a node of one of `kinds`.
Step(name, kinds) == ops' = ops + 1 /\ op'.name = name /\ op'.kind \in kinds

\* C1: a call optimization through a value reference or an original value
\* reference invokes onExceptionRaiseExit(BaseException) exactly once, and
\* as its first side effect: before the built-in call optimization is
\* invoked and before any onLocalsUsage.
C1_ExceptionExitOnceAndFirst ==
    LastOp("computeExpressionCall",
           {"EXPRESSION_BUILTIN_REF", "EXPRESSION_BUILTIN_ORIGINAL_REF"}) =>
        /\ Count("onExceptionRaiseExit") = 1
        /\ Len(log) >= 2
        /\ log[1] = [target |-> "trace_collection",
                     call |-> "onExceptionRaiseExit", arg |-> "BaseException"]
        /\ Count("computeBuiltinCall") = 1
        /\ \A i \in 1..Len(log) :
               log[i].call \in {"computeBuiltinCall", "onLocalsUsage"} => i > 1
        /\ Len(trace_collection) >= 1

C1_Witness ==
    /\ LastOp("computeExpressionCall", {"EXPRESSION_BUILTIN_ORIGINAL_REF"})
    /\ op.builtin_name = "eval"
    /\ op.outcome = "new_expression"
    /\ Len(log) = 3

\* C2: a call optimization through a value reference or an original value
\* reference invokes onLocalsUsage exactly once when the name is one of dir,
\* eval, exec, execfile, locals, vars, whatever the built-in call
\* optimization answered, and never for any other name.
C2_LocalsUsageExactlyForScopeNames ==
    LastOp("computeExpressionCall",
           {"EXPRESSION_BUILTIN_REF", "EXPRESSION_BUILTIN_ORIGINAL_REF"}) =>
        Count("onLocalsUsage") =
            (IF op.builtin_name \in
                  {"dir", "eval", "exec", "execfile", "locals", "vars"}
             THEN 1 ELSE 0)

C2_Witness ==
    /\ LastOp("computeExpressionCall", {"EXPRESSION_BUILTIN_REF"})
    /\ op.builtin_name = "dir"
    /\ result.tags = "new_expression"
    /\ Count("onLocalsUsage") = 1

\* The literal each of the five folded names stands for.
C3_Literal ==
    [n \in {"None", "True", "False", "__debug__", "Ellipsis"} |->
        CASE n = "None"      -> [type |-> "NoneType", value |-> "None"]
          [] n = "True"      -> [type |-> "bool", value |-> "True"]
          [] n = "False"     -> [type |-> "bool", value |-> "False"]
          [] n = "__debug__" -> [type |-> "bool", value |-> "True"]
          [] n = "Ellipsis"  -> [type |-> "ellipsis", value |-> "Ellipsis"]]

\* C3: computeExpressionRaw of a value reference answers a new constant
\* reference holding the literal, the tag "new_constant" and a message
\* naming the built-in exactly when the name is one of None, True, False,
\* __debug__, Ellipsis; for every other name it answers the node itself
\* with no tag and no message.
C3_ValueRefFoldsExactlyFive ==
    [][Step("computeExpressionRaw", {"EXPRESSION_BUILTIN_REF"}) =>
        IF node.builtin_name \in DOMAIN C3_Literal
        THEN /\ result'.node =
                    [kind |-> "EXPRESSION_CONSTANT_REF",
                     constant |-> C3_Literal[node.builtin_name],
                     source_ref |-> node.source_ref]
             /\ result'.tags = "new_constant"
             /\ result'.message =
                    "Built-in constant '" \o node.builtin_name \o "' resolved."
        ELSE /\ result'.node = node
             /\ result'.tags = PyNone
             /\ result'.message = PyNone]_vars

C3_Witness ==
    /\ LastOp("computeExpressionRaw", {"EXPRESSION_BUILTIN_REF"})
    /\ op.builtin_name = "Ellipsis"
    /\ result.tags = "new_constant"
    /\ result.node.kind = "EXPRESSION_CONSTANT_REF"

\* C4: a call through the exception reference ImportError on a version from
\* 3.3 on, with keyword arguments that are present and not the constant
\* empty dict, is left alone: the call node itself, no tag, no message.
C4_ImportErrorKeywordsAbort ==
    (/\ LastOp("computeExpressionCall", {"EXPRESSION_BUILTIN_EXCEPTION_REF"})
     /\ op.builtin_name = "ImportError"
     /\ python_version >= 330
     /\ op.call_node.call_kw # NoneNode
     /\ \/ op.call_node.call_kw.kind # "EXPRESSION_CONSTANT_REF"
        \/ op.call_node.call_kw.constant # {})
    => /\ result.node = op.call_node
       /\ result.tags = PyNone
       /\ result.message = PyNone

C4_Witness ==
    /\ LastOp("computeExpressionCall", {"EXPRESSION_BUILTIN_EXCEPTION_REF"})
    /\ op.builtin_name = "ImportError"
    /\ python_version = 330
    /\ op.call_node.call_kw.kind = "EXPRESSION_CONSTANT_REF"
    /\ op.call_node.call_kw.constant = {"name"}
    /\ op.outcome = "bound"
    /\ result.tags = PyNone

\* The keyword guard of the exception reference call fired on the last call.
C5_GuardFired ==
    /\ op.builtin_name = "ImportError"
    /\ python_version >= 330
    /\ op.call_node.call_kw # NoneNode
    /\ \/ op.call_node.call_kw.kind # "EXPRESSION_CONSTANT_REF"
       \/ op.call_node.call_kw.constant # {}

\* C5: when the keyword guard does not fire, a call through an exception
\* reference answers the call node itself with no tag and no message if and
\* only if argument binding produced nothing, and otherwise the new
\* exception-making node for this exception name with the tag
\* "new_expression" and the fixed message.
C5_ExceptionCallTwoOutcomes ==
    (/\ LastOp("computeExpressionCall", {"EXPRESSION_BUILTIN_EXCEPTION_REF"})
     /\ ~C5_GuardFired)
    => /\ (result = [node |-> op.call_node, tags |-> PyNone,
                     message |-> PyNone]) <=> (op.outcome = "fail")
       /\ (op.outcome # "fail") =>
              result = [node |-> [kind |-> "EXPRESSION_BUILTIN_MAKE_EXCEPTION",
                                  exception_name |-> op.builtin_name,
                                  args |-> op.call_node.call_args,
                                  source_ref |-> op.call_node.source_ref],
                        tags |-> "new_expression",
                        message |-> "Detected built-in exception making."]

C5_Witness ==
    /\ LastOp("computeExpressionCall", {"EXPRESSION_BUILTIN_EXCEPTION_REF"})
    /\ op.builtin_name = "ImportError"
    /\ python_version = 360
    /\ op.call_node.call_kw = NoneNode
    /\ op.outcome = "fail"
    /\ result.node = op.call_node

\* C6: constructing a value reference or an original value reference
\* yields a node iff the name is a known built-in name, an anonymous
\* reference iff it is a known anonymous name, an exception reference iff
\* it is a known exception name; otherwise construction yields no node.
C6_ConstructionValidatesName ==
    op.name = "__init__" =>
        LET required ==
                CASE op.kind \in {"EXPRESSION_BUILTIN_REF",
                                  "EXPRESSION_BUILTIN_ORIGINAL_REF"}
                       -> builtin_names
                  [] op.kind = "EXPRESSION_BUILTIN_ANONYMOUS_REF"
                       -> builtin_anon_names
                  [] op.kind = "EXPRESSION_BUILTIN_EXCEPTION_REF"
                       -> builtin_exception_names
        IN  IF op.builtin_name \in required
            THEN /\ node.kind = op.kind
                 /\ node.builtin_name = op.builtin_name
            ELSE node = NoNode

C6_Witness ==
    /\ op.name = "__init__"
    /\ op.kind = "EXPRESSION_BUILTIN_ANONYMOUS_REF"
    /\ op.builtin_name = "len"
    /\ node = NoNode

\* C7: computeExpressionRaw of an original value reference and of an
\* anonymous reference answers the node itself with no tag and no message
\* for every valid name, the five folded names included, on every
\* application.
C7_OriginalAndAnonymousNeverFold ==
    [][Step("computeExpressionRaw", {"EXPRESSION_BUILTIN_ORIGINAL_REF",
                                     "EXPRESSION_BUILTIN_ANONYMOUS_REF"}) =>
        /\ result' = [node |-> node, tags |-> PyNone, message |-> PyNone]
        /\ node' = node]_vars

C7_Witness ==
    /\ LastOp("computeExpressionRaw", {"EXPRESSION_BUILTIN_ORIGINAL_REF"})
    /\ op.builtin_name = "None"
    /\ passes >= 2
    /\ result.node = origin

C9_TraceCollectionFrame ==
    [][IF Step("computeExpressionCall", {"EXPRESSION_BUILTIN_REF",
                                         "EXPRESSION_BUILTIN_ORIGINAL_REF"})
       THEN /\ Len(trace_collection') >= Len(trace_collection)
            /\ SubSeq(trace_collection', 1, Len(trace_collection))
                   = trace_collection
            /\ \A i \in (Len(trace_collection) + 1)..Len(trace_collection') :
                   trace_collection'[i].call
                       \in {"onExceptionRaiseExit", "onLocalsUsage"}
       ELSE trace_collection' = trace_collection]_vars

C9_Witness ==
    /\ LastOp("computeExpressionCall", {"EXPRESSION_BUILTIN_EXCEPTION_REF"})
    /\ op.outcome = "bound"
    /\ result.tags = "new_expression"
    /\ trace_collection # <<>>

\* C10: repeated computeExpressionRaw with the answer installed rewrites at
\* most once: only a value reference with one of the five folded names is
\* replaced, by a constant reference, and the application after that
\* answers no tag; every other reference answers itself at once.
C10_AtMostOneRewrite ==
    LET folds == /\ origin.kind = "EXPRESSION_BUILTIN_REF"
                 /\ origin.builtin_name
                        \in {"None", "True", "False", "__debug__", "Ellipsis"}
    IN  /\ rewrites <= 1
        /\ rewrites = 1 => folds /\ node.kind = "EXPRESSION_CONSTANT_REF"
        /\ (passes >= 1 /\ origin # NoNode /\ ~folds) =>
               node = origin /\ rewrites = 0
        /\ (passes >= 1 /\ folds) => rewrites = 1
        /\ (op.name = "computeExpressionRaw" /\ passes >= 2) =>
               result.tags = PyNone /\ result.node = node

C10_Witness ==
    /\ op.name = "computeExpressionRaw"
    /\ passes >= 2
    /\ rewrites = 1
    /\ origin.builtin_name = "True"
    /\ result.tags = PyNone

====
